---- MODULE Spec2Model ----
(***************************************************************************)
(* Model of scripts/sync_to_elasticsearch.py: LocationSyncer.              *)
(*                                                                         *)
(* Spec      sync_all as a state machine: connection, index lifecycle,     *)
(*           the four entity-type stages, the except/finally handlers and  *)
(*           the process exit, over several successive runs.               *)
(* SpecDocs  the row-by-row body of the four generate_docs generators,     *)
(*           with _build_admin_hierarchy, _get_parent_admin and            *)
(*           _build_search_text.                                           *)
(*                                                                         *)
(* Python strings are tuples of one-character strings; None is the tuple   *)
(* <<"None">>, which no string of the model equals.                        *)
(***************************************************************************)
EXTENDS Integers, Sequences, FiniteSets, TLC

VARIABLES
    pc,            \* position of the process in sync_all
    run,           \* number of the current invocation of the script
    conn,          \* self.conn: "None", "open" or "closed"
    acquired,      \* psycopg2.connect calls that succeeded in this run
    released,      \* self.conn.close() calls in this run
    mappingFiles,  \* candidate mapping paths at which a file exists
    source,        \* rows per entity type in the relational store
    indexExists,   \* es.indices.exists(index)
    indexDocs,     \* documents of the index, each with the run that wrote it
    indexMapping,  \* mapping the index of this run was created with
    recreated,     \* es.indices.create returned in this run
    started,       \* sync stages called in this run
    raised,        \* the exception that left the try block of this run
    log,           \* logger records of this run
    exitCode,      \* process exit status; -1 while the process runs
    prev,          \* how the previous run ended and what it left in the index
    db,            \* the tables of the relational store, each a sequence of rows
    dpc,           \* the stage whose generator is being consumed
    cursor,        \* position of that stage's cursor in its result rows
    sunk,          \* the documents handed to helpers.bulk so far, in order
    warnings,      \* admin rows for which "Failed to get parent admin" was logged
    lookupFailed,  \* admin rows whose spatial query raised
    genRaised      \* the exception that left a generator, "none" if none

runVars == <<pc, run, conn, acquired, released, mappingFiles, source, indexExists,
             indexDocs, indexMapping, recreated, started, raised, log, exitCode,
             prev>>

docVars == <<db, dpc, cursor, sunk, warnings, lookupFailed, genRaised>>

vars == <<runVars, docVars>>

None == <<"None">>

\* Bounds of the model.
MaxRuns == 2
MaxRows == 1

Stages == <<"sync_places", "sync_admin_boundaries", "sync_poi", "sync_roads">>

StageSet == {Stages[i] : i \in 1..Len(Stages)}

StageIndex(s) == CHOOSE i \in 1..Len(Stages) : Stages[i] = s

\* The statement that follows stage s in the try block.
AfterStage(s) == IF StageIndex(s) < Len(Stages) THEN Stages[StageIndex(s) + 1] ELSE "summary"

\* mapping_paths of create_index, in the order they are tried.
MappingPaths == <<"docker", "local">>

NoRaise == [at |-> "none", exc |-> "none"]

Running == -1

\* No earlier run of the script has completed.
NoPrev == [ok |-> FALSE, docs |-> {}]

\* Where control goes when statement `at` of the try block raises: the
\* single except clause of sync_all.
OnRaiseIsolated(at) == IF at \in StageSet THEN AfterStage(at) ELSE "except"

OnRaise(at) == "except"

----
\* connect_db

ConnectDb ==
    /\ pc = "connect_db"
    /\ \E ok \in BOOLEAN :
         IF ok
         THEN /\ conn' = "open"
              /\ acquired' = acquired + 1
              /\ log' = log \cup {"connected"}
              /\ pc' = "create_index"
              /\ raised' = raised
         ELSE /\ conn' = conn
              /\ acquired' = acquired
              /\ log' = log \cup {"connect_failed"}
              /\ raised' = [at |-> "connect_db", exc |-> "OperationalError"]
              /\ pc' = OnRaise("connect_db")
    /\ UNCHANGED <<run, released, mappingFiles, source, indexExists, indexDocs,
                   indexMapping, recreated, started, exitCode>>
    /\ UNCHANGED <<prev, docVars>>

----
\* create_index

\* The loop over mapping_paths: the first path that exists, else None.
MappingPath(files) ==
    IF \E i \in 1..Len(MappingPaths) : MappingPaths[i] \in files
    THEN LET i == CHOOSE k \in 1..Len(MappingPaths) :
                     /\ MappingPaths[k] \in files
                     /\ \A j \in 1..(k - 1) : MappingPaths[j] \notin files
         IN <<MappingPaths[i]>>
    ELSE None

\* What the file system and the JSON decoder can answer to open + json.load
\* of an existing path: the file may have gone since os.path.exists.
OpenOutcomes == {"ok", "FileNotFoundError", "PermissionError", "JSONDecodeError"}

\* try: open(mapping_path); json.load  except FileNotFoundError: default.
\* open(None) raises TypeError, which the except clause does not name.
LoadMapping(path, fs) ==
    IF path = None
    THEN [mapping |-> "none", warned |-> FALSE, exc |-> "TypeError"]
    ELSE CASE fs = "ok" -> [mapping |-> "file", warned |-> FALSE, exc |-> "none"]
           [] fs = "FileNotFoundError" ->
                  [mapping |-> "default", warned |-> TRUE, exc |-> "none"]
           [] OTHER -> [mapping |-> "none", warned |-> FALSE, exc |-> fs]

\* The sink's answers to exists / delete / create: the step that fails, if any.
EsOutcomes == {"ok", "exists_failed", "delete_failed", "create_failed"}

\* The documents of the index after indices.delete + indices.create.
DocsKeptOnCreate(docs) == docs

DocsAfterRecreate(docs) == {}

CreateIndex ==
    /\ pc = "create_index"
    /\ \E fs \in OpenOutcomes, es \in EsOutcomes :
         LET m == LoadMapping(MappingPath(mappingFiles), fs)
             warn == IF m.warned THEN {"mapping_warning"} ELSE {}
         IN IF m.exc # "none"
            THEN /\ raised' = [at |-> "create_index", exc |-> m.exc]
                 /\ pc' = OnRaise("create_index")
                 /\ log' = log
                 /\ UNCHANGED <<indexExists, indexDocs, indexMapping, recreated>>
            ELSE CASE es = "exists_failed" ->
                        /\ raised' = [at |-> "create_index", exc |-> "TransportError"]
                        /\ pc' = OnRaise("create_index")
                        /\ log' = log \cup warn
                        /\ UNCHANGED <<indexExists, indexDocs, indexMapping, recreated>>
                   [] es = "delete_failed" ->
                        \* indices.delete is only called when the index exists
                        /\ indexExists
                        /\ raised' = [at |-> "create_index", exc |-> "TransportError"]
                        /\ pc' = OnRaise("create_index")
                        /\ log' = log \cup warn \cup {"index_deleting"}
                        /\ UNCHANGED <<indexExists, indexDocs, indexMapping, recreated>>
                   [] es = "create_failed" ->
                        /\ raised' = [at |-> "create_index", exc |-> "TransportError"]
                        /\ pc' = OnRaise("create_index")
                        /\ log' = log \cup warn
                                      \cup (IF indexExists THEN {"index_deleting"} ELSE {})
                        /\ indexExists' = FALSE
                        /\ indexDocs' = {}
                        /\ UNCHANGED <<indexMapping, recreated>>
                   [] OTHER ->
                        /\ raised' = raised
                        /\ pc' = Stages[1]
                        /\ log' = log \cup warn \cup {"index_created"}
                                      \cup (IF indexExists THEN {"index_deleting"} ELSE {})
                        /\ indexExists' = TRUE
                        /\ indexDocs' = DocsAfterRecreate(indexDocs)
                        /\ indexMapping' = m.mapping
                        /\ recreated' = TRUE
    /\ UNCHANGED <<run, conn, acquired, released, mappingFiles, source, started, exitCode>>
    /\ UNCHANGED <<prev, docVars>>

----
\* sync_places, sync_admin_boundaries, sync_poi, sync_roads

\* _id of the k-th row of a stage's query: '<prefix>_' || id.
DocIds(s) == {<<s, k>> : k \in 1..source[s]}

\* One stage: the query, the generator and helpers.bulk(raise_on_error=False).
\* The sink accepts any part of the documents; a failure of the query, of the
\* generator or of the transport raises out of the stage.
SyncStage(s) ==
    /\ pc = s
    /\ started' = started \cup {s}
    /\ \E ok \in BOOLEAN, written \in SUBSET DocIds(s) :
         /\ indexDocs' = {d \in indexDocs : d.id \notin written}
                            \cup {[id |-> i, run |-> run] : i \in written}
         /\ IF ok
            THEN /\ log' = log \cup {s}    \* "Synced N ... (F failed)"
                 /\ pc' = AfterStage(s)
                 /\ raised' = raised
            ELSE /\ log' = log
                 /\ raised' = [at |-> s, exc |-> "Exception"]
                 /\ pc' = OnRaise(s)
    /\ UNCHANGED <<run, conn, acquired, released, mappingFiles, source, indexExists,
                   indexMapping, recreated, exitCode>>
    /\ UNCHANGED <<prev, docVars>>

sync_places == SyncStage("sync_places")

sync_admin_boundaries == SyncStage("sync_admin_boundaries")

sync_poi == SyncStage("sync_poi")

sync_roads == SyncStage("sync_roads")

----
\* sync_all: the summary, the except clause, the finally clause

Summary ==
    /\ pc = "summary"
    /\ log' = log \cup {"completed"}
    /\ pc' = "finally"
    /\ UNCHANGED <<run, conn, acquired, released, mappingFiles, source, indexExists,
                   indexDocs, indexMapping, recreated, started, raised, exitCode>>
    /\ UNCHANGED <<prev, docVars>>

\* The exit status sys.exit asks for in the except clause.
ExitStatus == 1

\* except Exception: logger.error(...) -- without sys.exit
ExceptWithoutExit ==
    /\ pc = "except"
    /\ log' = log \cup {"sync_failed"}
    /\ pc' = "finally"
    /\ UNCHANGED <<run, conn, acquired, released, mappingFiles, source, indexExists,
                   indexDocs, indexMapping, recreated, started, raised, exitCode>>
    /\ UNCHANGED <<prev, docVars>>

\* except Exception: logger.error(...); sys.exit(1) -- SystemExit then unwinds
\* through the finally clause.
Except ==
    /\ pc = "except"
    /\ log' = log \cup {"sync_failed"}
    /\ exitCode' = ExitStatus
    /\ pc' = "finally"
    /\ UNCHANGED <<run, conn, acquired, released, mappingFiles, source, indexExists,
                   indexDocs, indexMapping, recreated, started, raised>>
    /\ UNCHANGED <<prev, docVars>>

\* finally: if self.conn: self.conn.close(); then the process ends, with the
\* status of sys.exit if it was called and 0 otherwise.
FinallyCloseOnSuccessOnly ==
    /\ pc = "finally"
    /\ IF conn = "open" /\ raised = NoRaise
       THEN conn' = "closed" /\ released' = released + 1
       ELSE UNCHANGED <<conn, released>>
    /\ exitCode' = IF exitCode = Running THEN 0 ELSE exitCode
    /\ pc' = "exited"
    /\ UNCHANGED <<run, acquired, mappingFiles, source, indexExists, indexDocs,
                   indexMapping, recreated, started, raised, log>>
    /\ UNCHANGED <<prev, docVars>>

Finally ==
    /\ pc = "finally"
    /\ IF conn # "None"
       THEN conn' = "closed" /\ released' = released + 1
       ELSE UNCHANGED <<conn, released>>
    /\ exitCode' = IF exitCode = Running THEN 0 ELSE exitCode
    /\ pc' = "exited"
    /\ UNCHANGED <<run, acquired, mappingFiles, source, indexExists, indexDocs,
                   indexMapping, recreated, started, raised, log>>
    /\ UNCHANGED <<prev, docVars>>

\* The script is started again: a new LocationSyncer (__init__ sets
\* self.conn = None) against the same store, files and index.
NewRun ==
    /\ pc = "exited"
    /\ run < MaxRuns
    /\ run' = run + 1
    /\ pc' = "connect_db"
    /\ conn' = "None"
    /\ acquired' = 0
    /\ released' = 0
    /\ indexMapping' = "none"
    /\ recreated' = FALSE
    /\ started' = {}
    /\ raised' = NoRaise
    /\ log' = {}
    /\ exitCode' = Running
    /\ prev' = IF raised = NoRaise THEN [ok |-> TRUE, docs |-> indexDocs] ELSE NoPrev
    /\ UNCHANGED <<mappingFiles, source, indexExists, indexDocs>>
    /\ UNCHANGED docVars

----
\* Python values: a tags column, and what json.loads returns

PyNone == [kind |-> "None", text |-> <<>>, map |-> <<>>]

PyStr(x) == [kind |-> "str", text |-> x, map |-> <<>>]

PyInt == [kind |-> "int", text |-> <<>>, map |-> <<>>]

PyList == [kind |-> "list", text |-> <<>>, map |-> <<>>]

PyDict(m) == [kind |-> "dict", text |-> <<>>, map |-> m]

\* if x: -- a string is true unless it is None or empty
Truthy(x) == x # None /\ x # <<>>

\* The text of a tags column is a tuple of tokens: the JSON punctuation, two
\* string literals ("name:en" and "x"), a number, null, and "=>", which stands
\* for any text that is no JSON token (as in the HSTORE text "x"=>"x").
JsonTokens == {"{", "}", "[", "]", ":", ",", "name:en", "x", "1", "null", "=>"}

StringTokens == {"name:en", "x"}

ParseFail == [ok |-> FALSE, next |-> 0, val |-> PyNone]

ParseOk(n, v) == [ok |-> TRUE, next |-> n, val |-> v]

RECURSIVE ParseValue(_, _), ParseElements(_, _), ParseMembers(_, _, _)

\* One JSON value starting at token i.
ParseValue(t, i) ==
    IF i > Len(t)
    THEN ParseFail
    ELSE CASE t[i] \in StringTokens -> ParseOk(i + 1, PyStr(<<t[i]>>))
           [] t[i] = "1" -> ParseOk(i + 1, PyInt)
           [] t[i] = "null" -> ParseOk(i + 1, PyNone)
           [] t[i] = "[" ->
                  IF i + 1 <= Len(t) /\ t[i + 1] = "]"
                  THEN ParseOk(i + 2, PyList)
                  ELSE ParseElements(t, i + 1)
           [] t[i] = "{" ->
                  IF i + 1 <= Len(t) /\ t[i + 1] = "}"
                  THEN ParseOk(i + 2, PyDict(<<>>))
                  ELSE ParseMembers(t, i + 1, <<>>)
           [] OTHER -> ParseFail

\* value ("," value)* "]"
ParseElements(t, i) ==
    LET v == ParseValue(t, i)
    IN IF ~v.ok \/ v.next > Len(t)
       THEN ParseFail
       ELSE CASE t[v.next] = "," -> ParseElements(t, v.next + 1)
              [] t[v.next] = "]" -> ParseOk(v.next + 1, PyList)
              [] OTHER -> ParseFail

\* string ":" value ("," string ":" value)* "}" ; a repeated key keeps the last value
ParseMembers(t, i, acc) ==
    IF i + 1 > Len(t) \/ t[i] \notin StringTokens \/ t[i + 1] # ":"
    THEN ParseFail
    ELSE LET v == ParseValue(t, i + 2)
         IN IF ~v.ok \/ v.next > Len(t)
            THEN ParseFail
            ELSE LET m == (t[i] :> v.val) @@ acc
                 IN CASE t[v.next] = "," -> ParseMembers(t, v.next + 1, m)
                      [] t[v.next] = "}" -> ParseOk(v.next + 1, PyDict(m))
                      [] OTHER -> ParseFail

\* json.loads: the whole text is one JSON value, else it raises.
json_loads(t) ==
    LET r == ParseValue(t, 1)
    IN IF r.ok /\ r.next = Len(t) + 1 THEN r ELSE ParseFail

\* if isinstance(tags, str): try json.loads(tags) if tags else {} except: {}
\* elif tags is None: tags = {}
NormalizeTags(tags) ==
    IF tags.kind = "str"
    THEN IF tags.text = <<>>
         THEN PyDict(<<>>)
         ELSE LET r == json_loads(tags.text)
              IN IF r.ok THEN r.val ELSE PyDict(<<>>)
    ELSE IF tags.kind = "None" THEN PyDict(<<>>) ELSE tags

\* name_en = tags.get('name:en', row['name']); only a dict has .get
NameEn(tags, name) ==
    LET t == NormalizeTags(tags)
    IN IF t.kind # "dict"
       THEN [exc |-> "AttributeError", val |-> PyNone]
       ELSE [exc |-> "none",
             val |-> IF "name:en" \in DOMAIN t.map THEN t.map["name:en"] ELSE PyStr(name)]

----
\* _build_search_text

\* row.get(key, '')
RowGet(row, key) == IF key \in DOMAIN row THEN row[key] ELSE <<>>

\* filter(None, parts)
FilterTruthy(parts) == SelectSeq(parts, Truthy)

RECURSIVE JoinSpace(_)

\* ' '.join(parts)
JoinSpace(parts) ==
    IF Len(parts) = 0 THEN <<>>
    ELSE IF Len(parts) = 1 THEN parts[1]
    ELSE parts[1] \o <<" ">> \o JoinSpace(Tail(parts))

build_search_text(row) ==
    JoinSpace(FilterTruthy(<<RowGet(row, "name"), RowGet(row, "name_ne"),
                             RowGet(row, "municipality"), RowGet(row, "district"),
                             RowGet(row, "province")>>))

----
\* _get_parent_admin and _build_admin_hierarchy

\* 'ward': None
NoWard == -1

EmptyHierarchy ==
    [ward |-> NoWard, municipality |-> None, municipality_ne |-> None,
     district |-> None, district_ne |-> None, province |-> None, province_ne |-> None]

\* The rows of the spatial query: district d CROSS JOIN province p, both
\* containing the point.
ParentRows(table, point) ==
    {[district |-> table[d].name, district_ne |-> table[d].name_ne,
      province |-> table[p].name, province_ne |-> table[p].name_ne] :
        <<d, p>> \in {x \in (DOMAIN table) \X (DOMAIN table) :
                        /\ table[x[1]].admin_level = 6
                        /\ table[x[2]].admin_level = 4
                        /\ point \in table[x[1]].geom
                        /\ point \in table[x[2]].geom}}

NoRow == [district |-> None, district_ne |-> None, province |-> None, province_ne |-> None]

\* What cur.execute + cur.fetchone can answer: an error, no row, or (LIMIT 1)
\* any one row of the join.
QueryAnswers(table, centroid) ==
    {[kind |-> "error", row |-> NoRow]}
      \cup (IF ParentRows(table, centroid[1]) = {}
            THEN {[kind |-> "empty", row |-> NoRow]}
            ELSE {[kind |-> "row", row |-> r] : r \in ParentRows(table, centroid[1])})

\* _get_parent_admin: dict(result) if result else None; except Exception: None
GetParentAdminUnguarded(answer) ==
    [exc |-> IF answer.kind = "error" THEN "DatabaseError" ELSE "none",
     found |-> answer.kind = "row", row |-> answer.row,
     warned |-> FALSE]

GetParentAdmin(answer) ==
    [exc |-> "none", found |-> answer.kind = "row", row |-> answer.row,
     warned |-> answer.kind = "error"]

NotCalled == [exc |-> "none", found |-> FALSE, row |-> NoRow, warned |-> FALSE]

DigitChars == <<"0", "1", "2", "3", "4", "5", "6", "7", "8", "9">>

Digits == {DigitChars[i] : i \in 1..Len(DigitChars)}

DigitValue(c) == (CHOOSE i \in 1..Len(DigitChars) : DigitChars[i] = c) - 1

RECURSIVE int(_)

\* int(match.group(2))
int(d) == IF Len(d) = 0 THEN 0 ELSE 10 * int(SubSeq(d, 1, Len(d) - 1)) + DigitValue(d[Len(d)])

\* The places where r'^(.+)-(\d+)$' can split the name: a hyphen with at
\* least one character before it and only digits, at least one, after it.
WardSplits(name) ==
    {i \in 2..(Len(name) - 1) :
        /\ name[i] = "-"
        /\ \A j \in (i + 1)..Len(name) : name[j] \in Digits}

\* r'^([^-]+)-.*?(\d+)$': the municipality ends at the first hyphen
WardMatchFirstHyphen(name) ==
    LET s == IF Truthy(name) THEN name ELSE <<>>
        hy == {i \in 2..(Len(s) - 1) : s[i] = "-"}
    IN IF WardSplits(s) = {}
       THEN [matched |-> FALSE, g1 |-> <<>>, g2 |-> <<>>]
       ELSE LET i == CHOOSE k \in hy : \A j \in hy : k <= j
                l == CHOOSE k \in WardSplits(s) : \A j \in WardSplits(s) : j <= k
            IN [matched |-> TRUE, g1 |-> SubSeq(s, 1, i - 1),
                g2 |-> SubSeq(s, l + 1, Len(s))]

\* re.match(r'^(.+)-(\d+)$', name or ''): the greedy (.+) takes the longest
\* prefix that lets the rest match.
WardMatch(name) ==
    LET s == IF Truthy(name) THEN name ELSE <<>>
    IN IF WardSplits(s) = {}
       THEN [matched |-> FALSE, g1 |-> <<>>, g2 |-> <<>>]
       ELSE LET i == CHOOSE k \in WardSplits(s) : \A j \in WardSplits(s) : j <= k
            IN [matched |-> TRUE, g1 |-> SubSeq(s, 1, i - 1),
                g2 |-> SubSeq(s, i + 1, Len(s))]

\* name_ne or name
OrName(name_ne, name) == IF Truthy(name_ne) THEN name_ne ELSE name

\* if parent_hierarchy: hierarchy['province'], ['province_ne'] = ...
WithProvince(h, parent) ==
    IF parent.found
    THEN [h EXCEPT !.province = parent.row.province,
                   !.province_ne = parent.row.province_ne]
    ELSE h

\* if parent_hierarchy: district, district_ne, province, province_ne = ...
WithDistrictProvince(h, parent) ==
    IF parent.found
    THEN [h EXCEPT !.district = parent.row.district,
                   !.district_ne = parent.row.district_ne,
                   !.province = parent.row.province,
                   !.province_ne = parent.row.province_ne]
    ELSE h

\* if centroid: parent_hierarchy = self._get_parent_admin(centroid)
NeedsLookup(row) == row.admin_level \in {6, 7, 9} /\ Truthy(row.centroid)

\* _build_admin_hierarchy, given what _get_parent_admin returned for the
\* row's centroid (NotCalled when it is not called).
build_admin_hierarchy(row, parent) ==
    LET h == EmptyHierarchy
        name == row.name
    IN CASE row.admin_level = 4 ->
              [h EXCEPT !.province = name, !.province_ne = OrName(row.name_ne, name)]
         [] row.admin_level = 6 ->
              WithProvince([h EXCEPT !.district = name,
                                     !.district_ne = OrName(row.name_ne, name)], parent)
         [] row.admin_level = 7 ->
              WithDistrictProvince([h EXCEPT !.municipality = name,
                                             !.municipality_ne = OrName(row.name_ne, name)],
                                   parent)
         [] row.admin_level = 9 ->
              LET m == WardMatch(name)
              IN WithDistrictProvince(
                     IF m.matched
                     THEN [h EXCEPT !.municipality = m.g1, !.municipality_ne = m.g1,
                                    !.ward = int(m.g2)]
                     ELSE h,
                     parent)
         [] OTHER -> h

----
\* The queries and the generators of the four stages

\* WHERE name IS NOT NULL
NameNotNull(r) == r.name # None

\* WHERE name IS NOT NULL AND admin_level IN (4, 6, 7, 9)
AdminWhere(r) == r.name # None /\ r.admin_level \in {4, 6, 7, 9}

\* The result rows of the query of a stage, in the order the cursor yields them.
Rows(stage) ==
    IF stage = "sync_admin_boundaries"
    THEN SelectSeq(db[stage], AdminWhere)
    ELSE SelectSeq(db[stage], NameNotNull)

\* _calculate_boost without its subtype tiers: one score per entity type.
calculate_boost_untiered(entity_type, subtype) ==
    IF entity_type = "place" THEN 10
    ELSE IF entity_type = "admin_boundary" THEN 12
    ELSE IF entity_type = "poi" THEN 5
    ELSE 3

\* The city, town, village and suburb literals of _calculate_boost.
city == <<"c", "i", "t", "y">>

town == <<"t", "o", "w", "n">>

village == <<"v", "i", "l", "l", "a", "g", "e">>

suburb == <<"s", "u", "b", "u", "r", "b">>

\* _calculate_boost; a score is written in tenths (2.0 is 20, 0.3 is 3).
calculate_boost(entity_type, subtype) ==
    IF entity_type = "place"
    THEN IF subtype \in {city, town} THEN 20
         ELSE IF subtype \in {village, suburb} THEN 15
         ELSE 10
    ELSE IF entity_type = "admin_boundary"
    THEN IF subtype \in {6, 7} THEN 18
         ELSE IF subtype = 4 THEN 15
         ELSE 12
    ELSE IF entity_type = "poi" THEN 5
    ELSE 3

PlaceDoc(row, name_en) ==
    [id |-> <<"place", row.id>>, entity_type |-> "place",
     name |-> row.name, name_ne |-> row.name_ne, name_en |-> name_en,
     place_type |-> row.place_type,
     ward |-> row.ward,
     municipality |-> row.municipality, municipality_ne |-> row.municipality,
     district |-> row.district, district_ne |-> row.district,
     province |-> row.province, province_ne |-> row.province,
     boost_score |-> calculate_boost("place", row.place_type),
     search_text |-> build_search_text(row)]

AdminDoc(row, name_en, h) ==
    [id |-> <<"admin", row.id>>, entity_type |-> "admin_boundary",
     name |-> row.name, name_ne |-> row.name_ne, name_en |-> name_en,
     ward |-> h.ward,
     municipality |-> h.municipality, municipality_ne |-> h.municipality_ne,
     district |-> h.district, district_ne |-> h.district_ne,
     province |-> h.province, province_ne |-> h.province_ne,
     boost_score |-> calculate_boost("admin_boundary", row.admin_level),
     search_text |-> build_search_text(row)]

PoiDoc(row, name_en) ==
    [id |-> <<"poi", row.id>>, entity_type |-> "poi",
     name |-> row.name, name_en |-> name_en,
     boost_score |-> 5,    \* 'boost_score': 0.5
     search_text |-> row.name]

RoadDoc(row, name_en) ==
    [id |-> <<"road", row.id>>, entity_type |-> "road",
     name |-> row.name, name_en |-> name_en,
     boost_score |-> 3,    \* 'boost_score': 0.3
     search_text |-> row.name]

\* An exception in a generator leaves helpers.bulk and the stage, and
\* reaches the except clause of sync_all.
GeneratorRaises(exc) ==
    /\ genRaised' = exc
    /\ dpc' = OnRaise(dpc)
    /\ UNCHANGED <<cursor, sunk>>

Yield(doc) ==
    /\ sunk' = Append(sunk, doc)
    /\ cursor' = cursor + 1
    /\ UNCHANGED <<dpc, genRaised>>

\* The document a stage without hierarchy lookup builds from a row.
StageDoc(stage, row, name_en) ==
    CASE stage = "sync_places" -> PlaceDoc(row, name_en)
      [] stage = "sync_poi" -> PoiDoc(row, name_en)
      [] OTHER -> RoadDoc(row, name_en)

\* One turn of "for row in cur" of a stage without hierarchy lookup.
GenerateDoc(stage) ==
    /\ dpc = stage
    /\ cursor <= Len(Rows(stage))
    /\ LET row == Rows(stage)[cursor]
           en == NameEn(row.tags, row.name)
       IN IF en.exc # "none"
          THEN GeneratorRaises(en.exc)
          ELSE Yield(StageDoc(stage, row, en.val))
    /\ UNCHANGED <<db, warnings, lookupFailed>>
    /\ UNCHANGED runVars

generate_place == GenerateDoc("sync_places")

generate_poi == GenerateDoc("sync_poi")

generate_road == GenerateDoc("sync_roads")

\* One turn of "for row in cur" of sync_admin_boundaries.
generate_admin ==
    /\ dpc = "sync_admin_boundaries"
    /\ cursor <= Len(Rows(dpc))
    /\ LET row == Rows(dpc)[cursor]
           en == NameEn(row.tags, row.name)
       IN IF en.exc # "none"
          THEN /\ GeneratorRaises(en.exc)
               /\ UNCHANGED <<warnings, lookupFailed>>
          ELSE IF ~NeedsLookup(row)
          THEN /\ Yield(AdminDoc(row, en.val, build_admin_hierarchy(row, NotCalled)))
               /\ UNCHANGED <<warnings, lookupFailed>>
          ELSE \E answer \in QueryAnswers(db[dpc], row.centroid) :
                 LET parent == GetParentAdmin(answer)
                 IN /\ lookupFailed' = IF answer.kind = "error"
                                       THEN lookupFailed \cup {row.id} ELSE lookupFailed
                    /\ warnings' = IF parent.warned
                                   THEN warnings \cup {row.id} ELSE warnings
                    /\ IF parent.exc # "none"
                       THEN GeneratorRaises(parent.exc)
                       ELSE Yield(AdminDoc(row, en.val, build_admin_hierarchy(row, parent)))
    /\ UNCHANGED db
    /\ UNCHANGED runVars

\* The cursor is exhausted: helpers.bulk returns, the stage returns its
\* count, and sync_all goes on to the next statement.
BulkReturns ==
    /\ dpc \in StageSet
    /\ cursor > Len(Rows(dpc))
    /\ dpc' = AfterStage(dpc)
    /\ cursor' = 1
    /\ UNCHANGED <<db, sunk, warnings, lookupFailed, genRaised>>
    /\ UNCHANGED runVars

InitRun ==
    /\ pc = "connect_db"
    /\ run = 1
    /\ conn = "None"
    /\ acquired = 0
    /\ released = 0
    /\ mappingFiles \in SUBSET {MappingPaths[i] : i \in 1..Len(MappingPaths)}
    /\ source \in [StageSet -> 0..MaxRows]
    /\ indexExists \in BOOLEAN
    /\ indexDocs = {}
    /\ indexMapping = "none"
    /\ recreated = FALSE
    /\ started = {}
    /\ raised = NoRaise
    /\ log = {}
    /\ exitCode = Running
    /\ prev = NoPrev

EmptyDb == [s \in StageSet |-> <<>>]

\* No generator is being followed.
DocsIdle ==
    /\ db = EmptyDb
    /\ dpc = "idle"
    /\ cursor = 1
    /\ sunk = <<>>
    /\ warnings = {}
    /\ lookupFailed = {}
    /\ genRaised = "none"

Init == InitRun /\ DocsIdle

Next ==
    \/ ConnectDb
    \/ CreateIndex
    \/ sync_places
    \/ sync_admin_boundaries
    \/ sync_poi
    \/ sync_roads
    \/ Summary
    \/ Except
    \/ Finally
    \/ NewRun

Spec == Init /\ [][Next]_vars

----
\* The stages row by row: the store's tables are drawn from bounded sets.

MaxTagLen == 2
MaxNameLen == 4
MaxBoundaries == 2

SeqsUpTo(S, n) == UNION {[1..k -> S] : k \in 0..n}

\* Texts of a tags column: every short token text, and some longer ones.
TagTexts ==
    SeqsUpTo(JsonTokens, MaxTagLen)
      \cup {<<"{", "name:en", ":", "x", "}">>,
            <<"{", "x", ":", "x", "}">>,
            <<"{", "name:en", ":", "1", "}">>,
            <<"{", "name:en", ":", "x", ",", "name:en", ":", "1", "}">>,
            <<"{", "x", ":", "{", "name:en", ":", "x", "}", "}">>,
            <<"{", "name:en", ":", "x", ",", "}">>,
            <<"[", "1", ",", "x", "]">>,
            <<"[", "{", "name:en", ":", "x", "}", "]">>,
            <<"x", "=>", "x">>,
            <<"name:en", "=>", "x">>}

\* A tags column: NULL, a mapping (HSTORE or JSON adapted by the driver), or text.
TagColumns ==
    {PyNone, PyDict(<<>>), PyDict("name:en" :> PyStr(<<"E">>)), PyDict("x" :> PyStr(<<"y">>))}
      \cup {PyStr(t) : t \in TagTexts}

PlaceRow(id, name, name_ne, m, d, p, tags) ==
    [id |-> id, name |-> name, name_ne |-> name_ne, place_type |-> None,
     ward |-> NoWard,
     municipality |-> m, district |-> d, province |-> p, tags |-> tags]

AdminRow(id, name, name_ne, level, centroid, geom, tags) ==
    [id |-> id, name |-> name, name_ne |-> name_ne, admin_level |-> level,
     centroid |-> centroid, geom |-> geom, tags |-> tags]

NamedRow(id, name, tags) == [id |-> id, name |-> name, tags |-> tags]

\* One row with the given tags in the table of one stage.
TagSlice ==
    {[EmptyDb EXCEPT ![s] =
        <<CASE s = "sync_places" -> PlaceRow(1, <<"P">>, None, None, None, None, t)
            [] s = "sync_admin_boundaries" -> AdminRow(1, <<"A">>, None, 4, None, {}, t)
            [] OTHER -> NamedRow(1, <<"R">>, t)>>] :
        s \in StageSet, t \in TagColumns}

Opt(c) == {None, <<>>, <<c>>}

\* One place, its name fields and flattened hierarchy present, empty or NULL.
PlaceSlice ==
    {[EmptyDb EXCEPT !["sync_places"] = <<PlaceRow(1, n, ne, m, d, p, PyNone)>>] :
        n \in {<<"P">>, None}, ne \in Opt("n"), m \in Opt("M"), d \in Opt("D"),
        p \in Opt("G")}

NameAlphabet == {"K", "a", "-", "0", "5"}

\* One ward without centroid, of any short name.
WardSlice ==
    {[EmptyDb EXCEPT !["sync_admin_boundaries"] =
        <<AdminRow(1, n, None, 9, None, {}, PyNone)>>] :
        n \in SeqsUpTo(NameAlphabet, MaxNameLen) \cup {None}}

Points == {"p"}

Shapes == [level : {4, 6, 7, 9}, centroid : {None} \cup {<<q>> : q \in Points},
           geom : SUBSET Points]

NameOfId(i) ==
    IF i % 2 = 1 THEN <<"B", DigitChars[i + 1]>> ELSE <<"W", "-", "0", DigitChars[i + 1]>>

NeOfId(i) == IF i % 2 = 1 THEN <<"n", DigitChars[i + 1]>> ELSE None

\* Boundary tables of every level, centroid and polygon, followed by one
\* POI and one road.
GeoSlice ==
    {[EmptyDb EXCEPT
        !["sync_admin_boundaries"] =
            [i \in 1..n |-> AdminRow(i, NameOfId(i), NeOfId(i), f[i].level,
                                     f[i].centroid, f[i].geom, PyNone)],
        !["sync_poi"] = <<NamedRow(1, <<"H">>, PyNone)>>,
        !["sync_roads"] = <<NamedRow(1, <<"R">>, PyNone)>>] :
        <<n, f>> \in UNION {{<<k, g>> : g \in [1..k -> Shapes]} : k \in 0..MaxBoundaries}}

\* Values of the place_type column: the four tiered types, another type, a
\* tiered type in another case, the empty string and NULL.
PlaceTypes ==
    {city, town, village, suburb, <<"h", "a", "m", "l", "e", "t">>,
     <<"C", "i", "t", "y">>, <<>>, None}

\* One place of any type, one boundary of any level, one POI and one road.
BoostSlice ==
    {[s \in StageSet |->
        CASE s = "sync_places" ->
               <<[PlaceRow(1, <<"P">>, None, None, None, None, PyNone)
                    EXCEPT !.place_type = t]>>
          [] s = "sync_admin_boundaries" ->
               <<AdminRow(1, <<"A">>, None, level, None, {}, PyNone)>>
          [] OTHER -> <<NamedRow(1, <<"R">>, PyNone)>>] :
        t \in PlaceTypes, level \in {4, 6, 7, 9}}

\* The run is inside the try block, connected, with the index recreated.
RunInStages ==
    /\ pc = "stages"
    /\ run = 1
    /\ conn = "open"
    /\ acquired = 1
    /\ released = 0
    /\ mappingFiles = {MappingPaths[1]}
    /\ source = [s \in StageSet |-> 0]
    /\ indexExists = TRUE
    /\ indexDocs = {}
    /\ indexMapping = "file"
    /\ recreated = TRUE
    /\ started = {}
    /\ raised = NoRaise
    /\ log = {"connected", "index_created"}
    /\ exitCode = Running
    /\ prev = NoPrev

InitDocs ==
    /\ RunInStages
    /\ db \in TagSlice \cup PlaceSlice \cup WardSlice \cup GeoSlice \cup BoostSlice
    /\ dpc = Stages[1]
    /\ cursor = 1
    /\ sunk = <<>>
    /\ warnings = {}
    /\ lookupFailed = {}
    /\ genRaised = "none"

NextDocs ==
    \/ generate_place
    \/ generate_admin
    \/ generate_poi
    \/ generate_road
    \/ BulkReturns

SpecDocs == InitDocs /\ [][NextDocs]_vars

----
\* Properties of sync_all (checked under Spec)

LaterStages(s) == {t \in StageSet : StageIndex(t) > StageIndex(s)}

\* C1, as stated: when a stage of sync_all raises, every later stage is still
\* executed in that run.
C1_LaterStagesStillRun ==
    (pc = "exited" /\ raised.at \in StageSet) => LaterStages(raised.at) \subseteq started

\* C1, amended: when a stage of sync_all raises, the error is logged by the
\* except clause, no later stage is executed in that run, and the process
\* exits with status 1.
C1_StageFailureAbortsRun ==
    raised.at \in StageSet =>
        /\ LaterStages(raised.at) \cap started = {}
        /\ pc \in {"except", "finally", "exited"}
        /\ pc \in {"finally", "exited"} => "sync_failed" \in log /\ exitCode = ExitStatus

C1_Witness ==
    /\ pc = "exited"
    /\ raised.at = "sync_places"
    /\ started = {"sync_places"}
    /\ "sync_failed" \in log

\* C2: in a run that acquired the source connection, it is acquired exactly
\* once, before index creation and the stages, and released exactly once, at
\* the end of the run, whether or not a later step failed; no run ends with
\* the connection open.
C2_ConnectionReleasedOnce ==
    /\ acquired <= 1
    /\ released <= acquired
    /\ (recreated \/ started # {}) => acquired = 1
    /\ released = 1 => pc = "exited"
    /\ pc = "exited" => conn # "open"
    /\ (pc = "exited" /\ acquired = 1) => (released = 1 /\ conn = "closed")

C2_Witness ==
    /\ pc = "exited"
    /\ raised.at \in StageSet \cup {"create_index"}
    /\ acquired = 1
    /\ released = 1
    /\ conn = "closed"

\* C3, as stated: when no candidate mapping file exists, create_index logs a
\* warning, uses the built-in default mapping and creates the index; the
\* missing mapping does not abort the run.
C3_MissingMappingFallsBack ==
    (mappingFiles = {} /\ acquired = 1 /\ pc # "create_index") =>
        /\ "mapping_warning" \in log
        /\ raised.exc # "TypeError"
        /\ recreated => indexMapping = "default"

\* C4: in every run the index is recreated before any document is written:
\* no stage runs and no document of the run is in the index before
\* indices.create returned in that run, and from then on the index holds no
\* document written by an earlier run.
C4_IndexRebuiltBeforeWrites ==
    /\ started # {} => recreated
    /\ (\E d \in indexDocs : d.run = run) => recreated
    /\ recreated => \A d \in indexDocs : d.run = run

C4_Witness ==
    /\ run = 2
    /\ recreated
    /\ started = StageSet
    /\ indexDocs # {}

\* C5: the process exits with 0 exactly when connecting, index creation and
\* the four stages all completed; when any of them raised, the exit status
\* is non-zero and the error has been logged.
C5_ExitCodeReflectsOutcome ==
    pc = "exited" =>
        /\ exitCode = 0 <=> raised = NoRaise
        /\ raised = NoRaise => (acquired = 1 /\ recreated /\ started = StageSet
                                  /\ "completed" \in log)
        /\ raised # NoRaise => (exitCode # 0 /\ exitCode # Running
                                  /\ "sync_failed" \in log)

C5_Witness ==
    /\ pc = "exited"
    /\ raised.at = "sync_poi"
    /\ exitCode = 1
    /\ "sync_failed" \in log

\* Documents of one entity type among the documents of the index.
DocsOfStage(docs, s) == {d \in docs : d.id[1] = s}

\* The documents the sink accepted in run r, among what the index held at its end.
AcceptedIn(docs, r) == {d.id : d \in {e \in docs : e.run = r}}

\* C11: a run that completes leaves in the index exactly the documents the
\* sink accepted in that run, none of an earlier run and none missing; so
\* when two successive runs both complete against the unchanged source and
\* the sink accepts the same documents in both, the document counts after
\* the second run equal those after the first, overall and per entity type.
C11_RebuildIdempotent ==
    (pc = "exited" /\ raised = NoRaise) =>
        /\ {d.id : d \in indexDocs} = AcceptedIn(indexDocs, run)
        /\ Cardinality(indexDocs) = Cardinality(AcceptedIn(indexDocs, run))
        /\ (/\ run > 1 /\ prev.ok
            /\ AcceptedIn(prev.docs, run - 1) = AcceptedIn(indexDocs, run)) =>
               /\ Cardinality(indexDocs) = Cardinality(prev.docs)
               /\ \A s \in StageSet :
                    Cardinality(DocsOfStage(indexDocs, s))
                        = Cardinality(DocsOfStage(prev.docs, s))

C11_Witness ==
    /\ pc = "exited" /\ run = 2
    /\ prev.ok /\ raised = NoRaise
    /\ AcceptedIn(prev.docs, 1) = AcceptedIn(indexDocs, 2)
    /\ Cardinality(indexDocs) >= 2
    /\ \E s \in StageSet : source[s] > Cardinality(DocsOfStage(indexDocs, s))

----
\* Properties of the document builders (checked under SpecDocs)

\* The row of a stage's table a document was built from.
RowOf(doc) ==
    LET stage == CASE doc.entity_type = "place" -> "sync_places"
                   [] doc.entity_type = "admin_boundary" -> "sync_admin_boundaries"
                   [] doc.entity_type = "poi" -> "sync_poi"
                   [] OTHER -> "sync_roads"
    IN db[stage][CHOOSE k \in DOMAIN db[stage] : db[stage][k].id = doc.id[2]]

SunkDocs == {sunk[i] : i \in 1..Len(sunk)}

\* The key-value mapping a tags column stands for: itself, the mapping its
\* text encodes, or the empty mapping.
TagMapping(tags) ==
    IF tags.kind = "dict" THEN tags.map
    ELSE IF tags.kind = "str" /\ json_loads(tags.text).ok
                              /\ json_loads(tags.text).val.kind = "dict"
    THEN json_loads(tags.text).val.map
    ELSE <<>>

\* C6, as stated: whatever the tags column holds, no generator raises, and
\* name_en is the 'name:en' value of the mapping when it has one and the
\* record's name otherwise.
C6_TagsNeverRaise ==
    /\ genRaised = "none"
    /\ \A d \in SunkDocs :
         d.name_en = IF "name:en" \in DOMAIN TagMapping(RowOf(d).tags)
                     THEN TagMapping(RowOf(d).tags)["name:en"]
                     ELSE PyStr(d.name)

\* C7, as stated: the search_text of a place or boundary document is the
\* space-joined non-empty values among the document's name, name_ne,
\* municipality, district and province, in that order.
C7_SearchTextOfDocument ==
    \A d \in SunkDocs :
        d.entity_type \in {"place", "admin_boundary"} =>
            d.search_text = JoinSpace(FilterTruthy(
                <<d.name, d.name_ne, d.municipality, d.district, d.province>>))

\* Names of the boundaries of a level whose polygon contains the point.
EnclosingNames(level, point) ==
    {db["sync_admin_boundaries"][k].name :
        k \in {j \in DOMAIN db["sync_admin_boundaries"] :
                 /\ db["sync_admin_boundaries"][j].admin_level = level
                 /\ point \in db["sync_admin_boundaries"][j].geom}}

\* C8, as stated: a district with a centroid gets district = its name and
\* province = an enclosing province whenever one exists and the lookup does
\* not fail; a municipality or ward gets district and province each set to
\* an enclosing boundary of that level whenever one exists.
C8_AncestorsResolved ==
    \A d \in SunkDocs :
        (/\ d.entity_type = "admin_boundary"
         /\ NeedsLookup(RowOf(d))
         /\ RowOf(d).id \notin lookupFailed) =>
            LET r == RowOf(d)
                provinces == EnclosingNames(4, r.centroid[1])
                districts == EnclosingNames(6, r.centroid[1])
            IN /\ r.admin_level = 6 => d.district = r.name
               /\ provinces # {} => d.province \in provinces
               /\ (r.admin_level \in {7, 9} /\ districts # {}) => d.district \in districts

HasWardForm(n) ==
    /\ n # None
    /\ \E k \in 1..Len(n) :
         /\ k > 1 /\ k < Len(n)
         /\ n[k] = "-"
         /\ \A j \in (k + 1)..Len(n) : n[j] \in Digits

LastHyphen(n) == CHOOSE k \in 1..Len(n) : n[k] = "-" /\ \A j \in (k + 1)..Len(n) : n[j] # "-"

RECURSIVE Pow10(_)

Pow10(e) == IF e = 0 THEN 1 ELSE 10 * Pow10(e - 1)

RECURSIVE DecimalValue(_)

\* The number a digit string denotes: the first digit weighs most.
DecimalValue(d) ==
    IF d = <<>> THEN 0
    ELSE DigitValue(Head(d)) * Pow10(Len(d) - 1) + DecimalValue(Tail(d))

\* C10: a ward document whose record name is <municipality>-<digits> has
\* municipality = the part before the final hyphen and ward = the number the
\* digits denote; for any other name both are unset.
C10_WardNameParsed ==
    \A d \in SunkDocs :
        (d.entity_type = "admin_boundary" /\ RowOf(d).admin_level = 9) =>
            IF HasWardForm(d.name)
            THEN /\ d.municipality = SubSeq(d.name, 1, LastHyphen(d.name) - 1)
                 /\ d.municipality_ne = d.municipality
                 /\ d.ward = DecimalValue(SubSeq(d.name, LastHyphen(d.name) + 1, Len(d.name)))
            ELSE d.municipality = None /\ d.ward = NoWard

C10_Witness ==
    \E d \in SunkDocs :
        /\ d.name = <<"K", "-", "0", "5">>
        /\ d.municipality = <<"K">>
        /\ d.ward = 5

\* The boost scores an entity type admits, in tenths.
TierSet(entity_type) ==
    CASE entity_type = "place" -> {20, 15, 10}
      [] entity_type = "admin_boundary" -> {18, 15, 12}
      [] entity_type = "poi" -> {5}
      [] OTHER -> {3}

\* The tier of a document by the table of boost scores, from the record the
\* document was built from.
TierOf(d) ==
    CASE d.entity_type = "place" ->
           LET t == RowOf(d).place_type
           IN CASE t = <<"c", "i", "t", "y">> \/ t = <<"t", "o", "w", "n">> -> 20
                [] t = <<"v", "i", "l", "l", "a", "g", "e">>
                     \/ t = <<"s", "u", "b", "u", "r", "b">> -> 15
                [] OTHER -> 10
      [] d.entity_type = "admin_boundary" ->
           LET l == RowOf(d).admin_level
           IN CASE l = 6 \/ l = 7 -> 18
                [] l = 4 -> 15
                [] OTHER -> 12
      [] d.entity_type = "poi" -> 5
      [] OTHER -> 3

\* C12: every produced document's boost_score is the tier of its entity type
\* and subtype: a place 2.0 for city or town, 1.5 for village or suburb, 1.0
\* otherwise; a boundary 1.8 for level 6 or 7, 1.5 for level 4, 1.2
\* otherwise; a POI 0.5; a road 0.3; and no score lies outside the tier set
\* of the document's entity type.
C12_BoostScoreIsTier ==
    \A d \in SunkDocs :
        /\ d.boost_score = TierOf(d)
        /\ d.boost_score \in TierSet(d.entity_type)

C12_Witness ==
    /\ \E d \in SunkDocs : d.entity_type = "place" /\ d.boost_score = 15
    /\ \E d \in SunkDocs : d.entity_type = "admin_boundary" /\ d.boost_score = 18
    /\ \E d \in SunkDocs : d.entity_type = "poi" /\ d.boost_score = 5
    /\ \E d \in SunkDocs : d.entity_type = "road" /\ d.boost_score = 3

====
